---- MODULE Spec2Model ----
(***************************************************************************)
(* Model of AutomaticUSDCMonitor (src/server-automatic.js): the ledger of  *)
(* mint requests (pendingMints), the processed-hash set, the mint queue    *)
(* and its drain loop (processMintQueue), the push subscription and the    *)
(* poll ticks that both feed handleUSDCTransfer, and the expiry sweep.     *)
(*                                                                         *)
(* Node runs the handlers on one event loop: a handler runs without        *)
(* interruption from one `await` to the next.  Every action below is one   *)
(* such run-to-suspension segment.                                         *)
(***************************************************************************)
EXTENDS Integers, Sequences, FiniteSets, TLC

\* ---------------------------------------------------------------- bounds
MaxRequests == 2      \* createPaymentInstructions calls in a run
MaxAuto     == 1      \* 'auto-' payment ids generated in a run
MaxTicks    == 1      \* clock ticks in a run
MaxPolls    == 1      \* poll ticks in flight at the same time
MaxPollLogs == 2      \* logs one getLogs answer carries
MaxCount    == 2      \* the history counter `acted` saturates here ("two or more")
MaxFailed   == 1      \* the history counter `failedTicks` saturates here ("one or more")

\* ------------------------------------------------------ program constants
PRICE_BASE_UNITS == 1000000          \* amount < 1000000n is rejected
EXPIRY_MS        == 30 * 60 * 1000   \* the payment window, also the sweep's age limit
KEEP_LAST        == 1                \* processed hashes kept by the sweep
                                     \* (1000 in the source, scaled down)

\* ------------------------------------------------------------ value sets
NoHash == "none"
NoTime == -1

Users  == {"a", "b"}
\* An address is its 20 bytes (id) and the letter case it is written in.
Addr(id, cs) == [id |-> id, cs |-> cs]
toLowerCase(x) == [x EXCEPT !.cs = "lower"]

USDC_PAYMENT_ADDRESS == Addr("pay", "checksum")
OtherAddress         == Addr("other", "checksum")

ReqId(n)  == [auto |-> FALSE, n |-> n]
AutoId(n) == [auto |-> TRUE, n |-> n]

Log(h, f, t, v, ok) ==
  [transactionHash |-> h, from |-> f, to |-> t, value |-> v, decodable |-> ok]

\* The transfer logs of the chain, in block order.  Transaction h2 carries two
\* transfers; h3 pays too little; h4 pays someone else; h5 does not decode.
ChainLogs ==
  << Log("h1", Addr("a", "checksum"), USDC_PAYMENT_ADDRESS, 1000000, TRUE),
     Log("h2", Addr("b", "checksum"), USDC_PAYMENT_ADDRESS, 1000000, TRUE),
     Log("h2", Addr("a", "checksum"), USDC_PAYMENT_ADDRESS, 1000001, TRUE),
     Log("h3", Addr("b", "checksum"), USDC_PAYMENT_ADDRESS, 999999, TRUE),
     Log("h5", Addr("b", "checksum"), USDC_PAYMENT_ADDRESS, 1000000, FALSE),
     Log("h4", Addr("a", "checksum"), OtherAddress, 1000000, TRUE) >>

\* The clock moves in steps that land an age exactly on the payment window
\* or one millisecond past it.
TickSteps == {EXPIRY_MS, EXPIRY_MS + 1}

TxHashes == {ChainLogs[i].transactionHash : i \in DOMAIN ChainLogs}

VARIABLES
  pendingMints,       \* Map paymentId -> request, as a sequence in insertion order
  processedTxHashes,  \* Set of hashes, as a sequence in insertion order
  mintQueue,          \* array of {paymentId, userAddress, txHash}
  isProcessing,       \* the drain loop's guard flag
  loops,              \* the processMintQueue calls suspended inside the while loop
  polls,              \* the pollRecentTransfers calls in flight
  now,                \* Date.now()
  nextPaymentId,      \* payment ids generated so far
  nextAutoId,         \* 'auto-' ids generated so far
  nTicks,             \* clock ticks so far
  acted,              \* history: per transaction hash, the handler runs that got
                      \*   past the processed-set gate since the hash last left the set
  minted,             \* history: the payment ids of the items in the queue or in a
                      \*   loop whose mint has already been confirmed
  contract,           \* whether the mint contract (and with it usdcContract) is configured
  response,           \* the status code of the latest answer of POST /api/request-mint
  failedTicks         \* history: the poll ticks that ended in the catch of line 194,
                      \*   counted up to MaxFailed and only under SpecPolling

vars == << pendingMints, processedTxHashes, mintQueue, isProcessing, loops, polls,
           now, nextPaymentId, nextAutoId, nTicks, acted, minted, contract, response, failedTicks >>

\* ------------------------------------------------------------- helpers
Min(a, b) == IF a < b THEN a ELSE b
Bump(c)   == Min(c + 1, MaxCount)
SeqToSet(s) == {s[i] : i \in DOMAIN s}
RemoveAt(s, i) == SubSeq(s, 1, i - 1) \o SubSeq(s, i + 1, Len(s))

Item(pid, addr, h) == [paymentId |-> pid, userAddress |-> addr, txHash |-> h]

\* this.pendingMints.has(paymentId) / .get(paymentId)
HasPending(pm, pid) == \E i \in DOMAIN pm : pm[i].paymentId = pid
IndexOf(pm, pid) == CHOOSE i \in DOMAIN pm : pm[i].paymentId = pid

\* The monitor after construction, whatever the configuration.
InitMonitor ==
  /\ pendingMints = << >>
  /\ processedTxHashes = << >>
  /\ mintQueue = << >>
  /\ isProcessing = FALSE
  /\ loops = << >>
  /\ polls = << >>
  /\ now = 0
  /\ nextPaymentId = 0
  /\ nextAutoId = 0
  /\ nTicks = 0
  /\ acted = [h \in TxHashes |-> 0]
  /\ minted = {}
  /\ response = 0
  /\ failedTicks = 0

\* The server with PRIVATE_KEY and CONTRACT_ADDRESS configured.
Init == InitMonitor /\ contract = TRUE

\* -------------------------------------------------------------- the clock
Tick ==
  /\ nTicks < MaxTicks
  /\ \E d \in TickSteps : now' = now + d
  /\ nTicks' = nTicks + 1
  /\ UNCHANGED << pendingMints, processedTxHashes, mintQueue, isProcessing, loops,
                  polls, nextPaymentId, nextAutoId, acted, minted, contract, response, failedTicks >>

\* ------------------------------------------------ createPaymentInstructions
NewRequest(pid, userAddress, timestamp) ==
  [paymentId |-> pid, userAddress |-> toLowerCase(userAddress), timestamp |-> timestamp,
   status |-> "waiting_for_payment", txHash |-> NoHash, paidAt |-> NoTime,
   mintTxHash |-> NoHash, completedAt |-> NoTime]

\* (mutant) the generator repeats an id it has handed out
generatePaymentId_Repeats(n) == ReqId(1)

\* crypto.randomBytes(16).toString('hex'): a fresh id, n ids being in use
generatePaymentId(n) == ReqId(n + 1)

\* (mutant) the request is queued for minting when it is created
createPaymentInstructions_Enqueues(userAddress) ==
  /\ nextPaymentId < MaxRequests
  /\ nextPaymentId' = nextPaymentId + 1
  /\ pendingMints' = Append(pendingMints, NewRequest(generatePaymentId(nextPaymentId), userAddress, now))
  /\ mintQueue' = Append(mintQueue, Item(generatePaymentId(nextPaymentId),
                                          toLowerCase(userAddress), NoHash))
  /\ UNCHANGED << processedTxHashes, isProcessing, loops, polls, now,
                  nextAutoId, nTicks, acted, minted, contract, failedTicks >>

createPaymentInstructions(userAddress) ==
  /\ nextPaymentId < MaxRequests
  /\ nextPaymentId' = nextPaymentId + 1
  /\ pendingMints' = Append(pendingMints, NewRequest(generatePaymentId(nextPaymentId), userAddress, now))
  /\ UNCHANGED << processedTxHashes, mintQueue, isProcessing, loops, polls, now,
                  nextAutoId, nTicks, acted, minted, contract, failedTicks >>

RequestMint ==
  /\ \E u \in Users, cs \in {"lower", "checksum"} : createPaymentInstructions(Addr(u, cs))
  /\ UNCHANGED response

\* ------------------------------------------------------ POST /api/request-mint
\* req.body.address: absent, a string that is no address (here: one with a
\* wrong checksum), or an address in lower case or with its checksum.
NoAddress == Addr("none", "absent")
Addresses == {NoAddress} \cup {Addr(u, cs) : u \in Users, cs \in {"lower", "checksum", "badchecksum"}}

\* ethers.isAddress(address)
isAddress(address) == address.cs \in {"lower", "checksum"}

\* what the route leaves alone when it answers without calling the monitor
RouteFrame ==
  UNCHANGED << pendingMints, processedTxHashes, mintQueue, isProcessing, loops, polls, now,
               nextPaymentId, nextAutoId, nTicks, acted, minted, contract, failedTicks >>

\* (mutant) the route does not test the contract
requestMint_NoContractTest(address) ==
  IF address = NoAddress \/ ~isAddress(address)
    THEN response' = 400 /\ RouteFrame
    ELSE response' = 202 /\ createPaymentInstructions(address)

\* The route: 400 for an absent or malformed address, 503 without contract,
\* else the payment instructions with 202.
requestMint(address) ==
  IF address = NoAddress \/ ~isAddress(address)
    THEN response' = 400 /\ RouteFrame
    ELSE IF ~contract
      THEN response' = 503 /\ RouteFrame
      ELSE response' = 202 /\ createPaymentInstructions(address)

RequestMintStep == \E address \in Addresses : requestMint(address)

\* ---------------------------------------------------------- processMintQueue
\* (mutant) the guard does not look at the flag
DrainGuard_NoFlag(q) == Len(q) = 0

\* The guard of line 276: nothing to do, or a loop is already draining.
DrainGuard(q) == isProcessing \/ Len(q) = 0

\* (mutant) the call enters the loop without setting the flag
StartDrain_LeavesFlag(q) ==
  IF DrainGuard(q)
    THEN [q |-> q, p |-> isProcessing, l |-> loops]
    ELSE [q |-> Tail(q), p |-> isProcessing,
          l |-> Append(loops, [pc |-> "mintTo", mintRequest |-> Head(q)])]

\* A call of processMintQueue on queue q, up to its first await: the values of
\* mintQueue, isProcessing and loops it leaves.
StartDrain(q) ==
  IF DrainGuard(q)
    THEN [q |-> q, p |-> isProcessing, l |-> loops]
    ELSE [q |-> Tail(q), p |-> TRUE,
          l |-> Append(loops, [pc |-> "mintTo", mintRequest |-> Head(q)])]

\* The payment ids of the items in queue q or held by a loop of l.
LivePaymentIds(q, l) ==
  {q[j].paymentId : j \in DOMAIN q} \cup {l[j].mintRequest.paymentId : j \in DOMAIN l}

\* (mutant) no loop: after one item the call resets the flag and returns
WhileTop_Once(i, q) ==
  /\ mintQueue' = q
  /\ loops' = RemoveAt(loops, i)
  /\ isProcessing' = FALSE

\* (mutant) the loop takes the newest item (pop, not shift)
WhileTop_Pops(i, q) ==
  IF Len(q) > 0
    THEN /\ mintQueue' = SubSeq(q, 1, Len(q) - 1)
         /\ loops' = [loops EXCEPT ![i] = [pc |-> "mintTo", mintRequest |-> q[Len(q)]]]
         /\ UNCHANGED isProcessing
    ELSE /\ mintQueue' = q
         /\ loops' = RemoveAt(loops, i)
         /\ isProcessing' = FALSE

\* The top of the while loop of loop i, reached again after an iteration:
\* take the next item, or leave the loop and reset the flag.
WhileTop(i, q) ==
  IF Len(q) > 0
    THEN /\ mintQueue' = Tail(q)
         /\ loops' = [loops EXCEPT ![i] = [pc |-> "mintTo", mintRequest |-> Head(q)]]
         /\ UNCHANGED isProcessing
    ELSE /\ mintQueue' = q
         /\ loops' = RemoveAt(loops, i)
         /\ isProcessing' = FALSE

\* (mutant) the catch block sleeps but does not put the item back
CatchRequeue_Drops(i) ==
  /\ mintQueue' = mintQueue
  /\ loops' = [loops EXCEPT ![i].pc = "backoff"]
  /\ UNCHANGED isProcessing

\* (mutant) the failed item goes to the front of the queue (unshift, not push)
CatchRequeue_Unshift(i) ==
  /\ mintQueue' = << loops[i].mintRequest >> \o mintQueue
  /\ loops' = [loops EXCEPT ![i].pc = "backoff"]
  /\ UNCHANGED isProcessing

\* (mutant) the catch block clears the flag for the time of the wait
CatchRequeue_ClearsFlag(i) ==
  /\ mintQueue' = Append(mintQueue, loops[i].mintRequest)
  /\ loops' = [loops EXCEPT ![i].pc = "backoff"]
  /\ isProcessing' = FALSE

\* The catch block of lines 338-345: the item goes back to the tail of the
\* queue and the loop sleeps 30 s.
CatchRequeue(i) ==
  /\ mintQueue' = Append(mintQueue, loops[i].mintRequest)
  /\ loops' = [loops EXCEPT ![i].pc = "backoff"]
  /\ UNCHANGED isProcessing

\* Lines 330-336, after the report: the block reads `mintData`, which no scope
\* of processMintQueue declares, so it throws a ReferenceError whenever the
\* payment id is in the ledger; the throw lands in the catch block.
UpdateStatus(i) ==
  IF HasPending(pendingMints, loops[i].mintRequest.paymentId)
    THEN CatchRequeue(i)
    ELSE WhileTop(i, mintQueue)

LoopFrame == UNCHANGED << pendingMints, processedTxHashes, polls, now, nextPaymentId,
                          nextAutoId, nTicks, acted, contract, response, failedTicks >>

\* await contract.mintTo(userAddress) resolves: the transaction is sent.
MintToSent(i) ==
  /\ loops[i].pc = "mintTo"
  /\ loops' = [loops EXCEPT ![i].pc = "txWait"]
  /\ UNCHANGED << mintQueue, isProcessing, minted >>
  /\ LoopFrame

\* (mutant) a rejected mintTo is not retried: the loop goes on to the next item
MintToRejected_GivesUp(i) ==
  /\ loops[i].pc = "mintTo"
  /\ WhileTop(i, mintQueue)
  /\ UNCHANGED minted
  /\ LoopFrame

\* await contract.mintTo(userAddress) rejects.
MintToRejected(i) ==
  /\ loops[i].pc = "mintTo"
  /\ CatchRequeue(i)
  /\ UNCHANGED minted
  /\ LoopFrame

\* await tx.wait() resolves: the mint is confirmed on chain.
TxConfirmed(i) ==
  /\ loops[i].pc = "txWait"
  /\ loops' = [loops EXCEPT ![i].pc = "report"]
  /\ minted' = minted \cup {loops[i].mintRequest.paymentId}
  /\ UNCHANGED << mintQueue, isProcessing >>
  /\ LoopFrame

\* await tx.wait() rejects (reverted transaction).
TxWaitRejected(i) ==
  /\ loops[i].pc = "txWait"
  /\ CatchRequeue(i)
  /\ UNCHANGED minted
  /\ LoopFrame

\* (mutant) an error of the report is not swallowed: it reaches the outer catch
ReportEnd_Propagates(i, ok) ==
  /\ loops[i].pc = "report"
  /\ IF ok THEN UpdateStatus(i) ELSE CatchRequeue(i)
  /\ minted' = minted \cap LivePaymentIds(mintQueue', loops')
  /\ LoopFrame

\* The report of lines 297-328 ends: fetch and response.text() resolve (ok), or
\* one of them rejects (~ok) and the inner catch swallows the error.  Nothing reads or
\* writes the monitor between the two awaits, so they are one suspension here.
\* Then the status update runs.
ReportEnd(i, ok) ==
  /\ loops[i].pc = "report"
  /\ UpdateStatus(i)
  /\ minted' = minted \cap LivePaymentIds(mintQueue', loops')
  /\ LoopFrame

\* The 30 s timer of the catch block fires.
BackoffDone(i) ==
  /\ loops[i].pc = "backoff"
  /\ WhileTop(i, mintQueue)
  /\ minted' = minted \cap LivePaymentIds(mintQueue', loops')
  /\ LoopFrame

MintToSentStep     == \E i \in DOMAIN loops : MintToSent(i)
MintToRejectedStep == \E i \in DOMAIN loops : MintToRejected(i)
TxConfirmedStep    == \E i \in DOMAIN loops : TxConfirmed(i)
TxWaitRejectedStep == \E i \in DOMAIN loops : TxWaitRejected(i)
ReportEndStep      == \E i \in DOMAIN loops, ok \in BOOLEAN : ReportEnd(i, ok)
BackoffDoneStep    == \E i \in DOMAIN loops : BackoffDone(i)

LoopStep ==
  \/ MintToSentStep
  \/ MintToRejectedStep
  \/ TxConfirmedStep
  \/ TxWaitRejectedStep
  \/ ReportEndStep
  \/ BackoffDoneStep

\* --------------------------------------------------------- handleUSDCTransfer
\* (mutant) a hash that a queue item or the drain loop still carries counts as
\* processed
Seen_ChecksItems(h) ==
  \/ h \in SeqToSet(processedTxHashes)
  \/ \E j \in DOMAIN mintQueue : mintQueue[j].txHash = h
  \/ \E j \in DOMAIN loops : loops[j].mintRequest.txHash = h

\* this.processedTxHashes.has(txHash)
Seen(h) == h \in SeqToSet(processedTxHashes)

\* (mutant) the hash is not recorded
SetAdd_Forgets(s, h) == s

\* this.processedTxHashes.add(txHash): a Set keeps insertion order, no duplicates
SetAdd(s, h) == IF h \in SeqToSet(s) THEN s ELSE Append(s, h)

\* (mutant) the amount is not tested
Qualifies_AnyAmount(log) == toLowerCase(log.to) = toLowerCase(USDC_PAYMENT_ADDRESS)

\* to !== paymentAddress.toLowerCase() || amount < 1000000n  (negated)
Qualifies(log) ==
  /\ toLowerCase(log.to) = toLowerCase(USDC_PAYMENT_ADDRESS)
  /\ ~(log.value < PRICE_BASE_UNITS)

\* The scan of lines 231-237: the index of the first entry, in insertion order,
\* for this sender that is waiting_for_payment; 0 when there is none.
\* (mutant) the scan does not test the status
IsWaitingFor_AnyStatus(r, from) == r.userAddress = from

IsWaitingFor(r, from) == r.userAddress = from /\ r.status = "waiting_for_payment"
\* (mutant) the scan does not stop at the first hit: the last one wins
FindPending_Last(pm, from) ==
  IF \E i \in DOMAIN pm : IsWaitingFor(pm[i], from)
    THEN CHOOSE i \in DOMAIN pm :
           /\ IsWaitingFor(pm[i], from)
           /\ \A j \in (i + 1)..Len(pm) : ~IsWaitingFor(pm[j], from)
    ELSE 0

\* (mutant) the first entry of the sender wins, whatever its status
FindPending_IgnoresStatus(pm, from) ==
  IF \E i \in DOMAIN pm : pm[i].userAddress = from
    THEN CHOOSE i \in DOMAIN pm :
           /\ pm[i].userAddress = from
           /\ \A j \in 1..(i - 1) : pm[j].userAddress # from
    ELSE 0

\* (mutant) the scan does not test the sender: the first waiting entry wins
FindPending_AnySender(pm, from) ==
  IF \E i \in DOMAIN pm : pm[i].status = "waiting_for_payment"
    THEN CHOOSE i \in DOMAIN pm :
           /\ pm[i].status = "waiting_for_payment"
           /\ \A j \in 1..(i - 1) : pm[j].status # "waiting_for_payment"
    ELSE 0

FindPending(pm, from) ==
  IF \E i \in DOMAIN pm : IsWaitingFor(pm[i], from)
    THEN CHOOSE i \in DOMAIN pm :
           /\ IsWaitingFor(pm[i], from)
           /\ \A j \in 1..(i - 1) : ~IsWaitingFor(pm[j], from)
    ELSE 0

\* (mutant) the payment's hash is not stored on the entry
MarkPaid_NoHash(r, h, t) == [r EXCEPT !.status = "payment_received", !.paidAt = t]

\* (mutant) the hash goes to the wrong field
MarkPaid_WrongField(r, h, t) ==
  [r EXCEPT !.status = "payment_received", !.mintTxHash = h, !.paidAt = t]

\* (mutant) the status is not written
MarkPaid_KeepsStatus(r, h, t) == [r EXCEPT !.txHash = h, !.paidAt = t]

\* Lines 241-244: the matched entry takes the payment.
MarkPaid(r, h, t) == [r EXCEPT !.status = "payment_received", !.txHash = h, !.paidAt = t]

HandlerFrame == UNCHANGED << now, nextPaymentId, nTicks, minted, contract, response, failedTicks >>

\* (mutant) the id of an unmatched payment lacks the 'auto-' prefix
NewAutoId_NoPrefix(n) == ReqId(n + 1)

\* 'auto-' + crypto.randomBytes(8).toString('hex'): a fresh id, n ids being in use
NewAutoId(n) == AutoId(n + 1)

\* (mutant) a log is a duplicate only when its own sender has an item of the
\* transaction
Outcome_KeyedBySender(log) ==
  IF /\ Seen(log.transactionHash)
     /\ \/ ~log.decodable
        \/ \E j \in DOMAIN mintQueue :
             /\ mintQueue[j].txHash = log.transactionHash
             /\ mintQueue[j].userAddress = toLowerCase(log.from)
        \/ \E j \in DOMAIN loops :
             /\ loops[j].mintRequest.txHash = log.transactionHash
             /\ loops[j].mintRequest.userAddress = toLowerCase(log.from)
    THEN "duplicate"
  ELSE IF ~log.decodable THEN "decodeError"
  ELSE IF ~Qualifies(log) THEN "ignored"
  ELSE IF FindPending(pendingMints, toLowerCase(log.from)) # 0 THEN "matched"
  ELSE "auto"

\* (mutant) a log that does not decode is read as if it had decoded
Outcome_IgnoresDecodeError(log) ==
  IF Seen(log.transactionHash) THEN "duplicate"
  ELSE IF ~Qualifies(log) THEN "ignored"
  ELSE IF FindPending(pendingMints, toLowerCase(log.from)) # 0 THEN "matched"
  ELSE "auto"

\* How a call of handleUSDCTransfer(log) ends in the current state: at the
\* processed-set check (204), in the catch block after parseLog throws or yields
\* null (210-214, 270), at the recipient and amount check (217), or on the
\* matched (239) or unmatched (257) path.
Outcome(log) ==
  IF Seen(log.transactionHash) THEN "duplicate"
  ELSE IF ~log.decodable THEN "decodeError"
  ELSE IF ~Qualifies(log) THEN "ignored"
  ELSE IF FindPending(pendingMints, toLowerCase(log.from)) # 0 THEN "matched"
  ELSE "auto"

\* One call of handleUSDCTransfer(log); it has no await, and the call of
\* processMintQueue() it ends with runs up to that function's first await.
handleUSDCTransfer(log) ==
  LET txHash == log.transactionHash
      from   == toLowerCase(log.from)
      k      == FindPending(pendingMints, from)
      pid    == IF k # 0 THEN pendingMints[k].paymentId ELSE NewAutoId(nextAutoId)
      d      == StartDrain(Append(mintQueue, Item(pid, from, txHash)))
  IN
  IF Outcome(log) \in {"duplicate", "decodeError", "ignored"} THEN
       UNCHANGED << pendingMints, processedTxHashes, mintQueue, isProcessing, loops,
                    nextAutoId, acted >>
  ELSE
       /\ processedTxHashes' = SetAdd(processedTxHashes, txHash)
       /\ acted' = [acted EXCEPT ![txHash] = Bump(@)]
       /\ IF k # 0
            THEN /\ pendingMints' = [pendingMints EXCEPT ![k] = MarkPaid(@, txHash, now)]
                 /\ UNCHANGED nextAutoId
            ELSE /\ nextAutoId < MaxAuto
                 /\ nextAutoId' = nextAutoId + 1
                 /\ UNCHANGED pendingMints
       /\ mintQueue' = d.q
       /\ isProcessing' = d.p
       /\ loops' = d.l

\* provider.on(filter, log => handleUSDCTransfer(log)): the subscription
\* delivers a log of the chain, any log, any number of times.
PushCallback ==
  \E n \in DOMAIN ChainLogs :
    /\ handleUSDCTransfer(ChainLogs[n])
    /\ UNCHANGED polls
    /\ HandlerFrame

\* --------------------------------------------------------- pollRecentTransfers
PollFrame == UNCHANGED << pendingMints, processedTxHashes, mintQueue, isProcessing, loops,
                          now, nextPaymentId, nextAutoId, nTicks, acted, minted,
                          contract, response, failedTicks >>

\* A tick in flight: where it is suspended, the logs of its for loop still to
\* handle, and (history) how its latest handleUSDCTransfer call ended.
PollState(pc, logs, outcome) == [pc |-> pc, logs |-> logs, outcome |-> outcome]

\* setInterval(pollRecentTransfers, 15000): a tick starts and awaits
\* getBlockNumber; at most n ticks are in flight.
pollRecentTransfers(n) ==
  /\ Len(polls) < n
  /\ polls' = Append(polls, PollState("getBlockNumber", << >>, "none"))
  /\ PollFrame

PollStart == pollRecentTransfers(MaxPolls)

\* a tick that starts while the one before it is still in flight
PollStartOverlapping == pollRecentTransfers(MaxPolls + 1)

\* getBlockNumber resolves: the tick awaits getLogs.
PollBlockNumber(i) ==
  /\ polls[i].pc = "getBlockNumber"
  /\ polls' = [polls EXCEPT ![i].pc = "getLogs"]
  /\ PollFrame

\* what the catch of line 194 leaves alone
CatchFrame == UNCHANGED << pendingMints, processedTxHashes, mintQueue, isProcessing, loops,
                           now, nextPaymentId, nextAutoId, nTicks, acted, minted,
                           contract, response >>

\* (mutant) the rejection is not caught: the tick never ends, and no tick
\* starts after it
PollFailed_Hangs(i) ==
  /\ polls[i].pc \in {"getBlockNumber", "getLogs"}
  /\ polls' = [polls EXCEPT ![i].pc = "rejected"]
  /\ CatchFrame

\* getBlockNumber or getLogs rejects: the catch of line 194 ends the tick.
PollFailed(i) ==
  /\ polls[i].pc \in {"getBlockNumber", "getLogs"}
  /\ polls' = RemoveAt(polls, i)
  /\ CatchFrame

\* The for loop of lines 191-193 on the logs still to deliver: the next log is
\* handled, then `await` suspends the tick; after the last log the tick ends.
PollDeliver(i, logs) ==
  /\ handleUSDCTransfer(Head(logs))
  /\ polls' = IF Len(logs) = 1 THEN RemoveAt(polls, i)
              ELSE [polls EXCEPT ![i] = PollState("deliver", Tail(logs), Outcome(Head(logs)))]
  /\ HandlerFrame

\* getLogs resolves with the logs of a window of recent blocks, in block order.
PollGotLogs(i) ==
  /\ polls[i].pc = "getLogs"
  /\ \E lo \in 1..Len(ChainLogs), n \in 0..MaxPollLogs :
       /\ lo + n - 1 <= Len(ChainLogs)
       /\ IF n = 0
            THEN /\ polls' = RemoveAt(polls, i)
                 /\ PollFrame
            ELSE PollDeliver(i, SubSeq(ChainLogs, lo, lo + n - 1))

\* The await of line 192 returns: the loop goes on with the next log.
PollNext(i) ==
  /\ polls[i].pc = "deliver"
  /\ PollDeliver(i, polls[i].logs)

PollBlockNumberStep == \E i \in DOMAIN polls : PollBlockNumber(i)
PollFailedStep      == \E i \in DOMAIN polls : PollFailed(i) /\ UNCHANGED failedTicks
\* the same step, counted
PollFailedNoted     ==
  \E i \in DOMAIN polls : PollFailed(i) /\ failedTicks' = Min(failedTicks + 1, MaxFailed)
PollGotLogsStep     == \E i \in DOMAIN polls : PollGotLogs(i)
PollNextStep        == \E i \in DOMAIN polls : PollNext(i)

\* --------------------------------------------------------------- cleanupExpired
\* (mutant) only a request that still waits for its payment expires
IsExpired_WaitingOnly(r, t) ==
  r.status = "waiting_for_payment" /\ t - r.timestamp > EXPIRY_MS

\* now - data.timestamp > 30 * 60 * 1000
IsExpired(r, t) == t - r.timestamp > EXPIRY_MS

\* (mutant) the first n elements are kept
SliceLast_KeepsOldest(s, n) == IF Len(s) <= n THEN s ELSE SubSeq(s, 1, n)

\* arr.slice(-n): the last n elements
SliceLast(s, n) == IF Len(s) <= n THEN s ELSE SubSeq(s, Len(s) - n + 1, Len(s))

TrimProcessed(s) == IF Len(s) > KEEP_LAST THEN SliceLast(s, KEEP_LAST) ELSE s

\* (mutant) the sweep also takes the queue items of the requests it removes
cleanupExpired_CancelsItems ==
  /\ pendingMints' = SelectSeq(pendingMints, LAMBDA r : ~IsExpired(r, now))
  /\ processedTxHashes' = TrimProcessed(processedTxHashes)
  /\ acted' = [h \in TxHashes |->
                 IF h \in SeqToSet(processedTxHashes) \ SeqToSet(processedTxHashes')
                   THEN 0 ELSE acted[h]]
  /\ mintQueue' = SelectSeq(mintQueue,
                     LAMBDA m : m.paymentId.auto \/ HasPending(pendingMints', m.paymentId)
                                  \/ ~HasPending(pendingMints, m.paymentId))
  /\ UNCHANGED << isProcessing, loops, polls, now, nextPaymentId, nextAutoId,
                  nTicks, minted, contract, response, failedTicks >>

cleanupExpired ==
  /\ pendingMints' = SelectSeq(pendingMints, LAMBDA r : ~IsExpired(r, now))
  /\ processedTxHashes' = TrimProcessed(processedTxHashes)
  /\ acted' = [h \in TxHashes |->
                 IF h \in SeqToSet(processedTxHashes) \ SeqToSet(processedTxHashes')
                   THEN 0 ELSE acted[h]]
  /\ UNCHANGED << mintQueue, isProcessing, loops, polls, now, nextPaymentId, nextAutoId,
                  nTicks, minted, contract, response, failedTicks >>

\* ------------------------------------------------------------ getPaymentStatus
\* (mutant) the age of the request is not looked at
getPaymentStatus_NoAgeCheck(pm, paymentId, t) ==
  IF ~HasPending(pm, paymentId)
    THEN [found |-> FALSE, error |-> "Payment ID not found"]
    ELSE LET mintData == pm[IndexOf(pm, paymentId)] IN
      [found |-> TRUE, status |-> mintData.status, userAddress |-> mintData.userAddress,
       paymentTxHash |-> mintData.txHash, mintTxHash |-> mintData.mintTxHash,
       timestamp |-> mintData.timestamp, paidAt |-> mintData.paidAt,
       completedAt |-> mintData.completedAt]

\* (mutant) an id that is not in the ledger is answered like an old request
getPaymentStatus_NoLookup(pm, paymentId, t) ==
  IF ~HasPending(pm, paymentId) \/ IsExpired(pm[IndexOf(pm, paymentId)], t)
    THEN [found |-> TRUE, status |-> "expired", message |-> "Payment window expired"]
    ELSE LET mintData == pm[IndexOf(pm, paymentId)] IN
      [found |-> TRUE, status |-> mintData.status, userAddress |-> mintData.userAddress,
       paymentTxHash |-> mintData.txHash, mintTxHash |-> mintData.mintTxHash,
       timestamp |-> mintData.timestamp, paidAt |-> mintData.paidAt,
       completedAt |-> mintData.completedAt]

\* The answer of getPaymentStatus(paymentId) on ledger pm at time t.
getPaymentStatus(pm, paymentId, t) ==
  IF ~HasPending(pm, paymentId)
    THEN [found |-> FALSE, error |-> "Payment ID not found"]
    ELSE LET mintData == pm[IndexOf(pm, paymentId)] IN
      IF IsExpired(mintData, t)
        THEN [found |-> TRUE, status |-> "expired", message |-> "Payment window expired"]
        ELSE [found |-> TRUE, status |-> mintData.status, userAddress |-> mintData.userAddress,
              paymentTxHash |-> mintData.txHash, mintTxHash |-> mintData.mintTxHash,
              timestamp |-> mintData.timestamp, paidAt |-> mintData.paidAt,
              completedAt |-> mintData.completedAt]

\* The payment ids a client can ask about: those the monitor can hand out or
\* generate, and one more request id than it can ever hand out.
AskedIds == {ReqId(n) : n \in 1..(MaxRequests + 1)} \cup {AutoId(n) : n \in 1..MaxAuto}

\* (mutant) the route drops a request from the ledger when it reports it expired
PaymentStatusRoute_Evicts(paymentId) ==
  IF HasPending(pendingMints, paymentId)
       /\ getPaymentStatus(pendingMints, paymentId, now).status = "expired"
    THEN /\ pendingMints' = SelectSeq(pendingMints, LAMBDA r : r.paymentId # paymentId)
         /\ UNCHANGED <<processedTxHashes, mintQueue, isProcessing, loops, polls, now,
                        nextPaymentId, nextAutoId, nTicks, acted, minted, contract, response, failedTicks>>
    ELSE UNCHANGED vars

\* GET /api/payment-status/:paymentId: the route answers with getPaymentStatus
\* and writes nothing.
PaymentStatusRoute(paymentId) ==
  /\ UNCHANGED vars
  /\ getPaymentStatus(pendingMints, paymentId, now).found \in BOOLEAN

PaymentStatusStep == \E paymentId \in AskedIds : PaymentStatusRoute(paymentId)

\* ------------------------------------------------- GET /api/check-pending
\* The answer of the route for :address on ledger pm: 400 for a string that
\* is no address, else the first entry, in insertion order, whose userAddress
\* is the lower-cased address, or hasPending false.
checkPending(pm, address) ==
  IF ~isAddress(address)
    THEN [error |-> "Invalid address"]
    ELSE IF \E i \in DOMAIN pm : pm[i].userAddress = toLowerCase(address)
      THEN LET k == CHOOSE i \in DOMAIN pm :
                      /\ pm[i].userAddress = toLowerCase(address)
                      /\ \A j \in 1..(i - 1) : pm[j].userAddress # toLowerCase(address)
           IN [hasPending |-> TRUE, paymentId |-> pm[k].paymentId,
               status |-> pm[k].status, timestamp |-> pm[k].timestamp]
      ELSE [hasPending |-> FALSE]

\* The route answers with checkPending and writes nothing.
CheckPendingRoute(address) ==
  /\ UNCHANGED vars
  /\ checkPending(pendingMints, address) \in
       {checkPending(pendingMints, a) : a \in Addresses \ {NoAddress}}

CheckPendingStep == \E address \in Addresses \ {NoAddress} : CheckPendingRoute(address)

\* ------------------------------------------------------------ specification
Next ==
  \/ Tick
  \/ RequestMint
  \/ PushCallback
  \/ PollStart
  \/ PollBlockNumberStep
  \/ PollFailedStep
  \/ PollGotLogsStep
  \/ PollNextStep
  \/ MintToSentStep
  \/ MintToRejectedStep
  \/ TxConfirmedStep
  \/ TxWaitRejectedStep
  \/ ReportEndStep
  \/ BackoffDoneStep
  \/ cleanupExpired
  \/ PaymentStatusStep

Spec == Init /\ [][Next]_vars

\* The monitor fed by the push subscription alone.  A poll tick changes the
\* monitor only through the handleUSDCTransfer calls it makes, which are the
\* calls the push callback makes, so the ledger, the queue and the drain loop
\* go through the same states as under Spec.
NextPush ==
  \/ Tick
  \/ RequestMint
  \/ PushCallback
  \/ MintToSentStep
  \/ MintToRejectedStep
  \/ TxConfirmedStep
  \/ TxWaitRejectedStep
  \/ ReportEndStep
  \/ BackoffDoneStep
  \/ cleanupExpired

\* The watcher with overlapping poll ticks, on a clock that stands still (the
\* sweep then only trims the processed set).
NextWatch ==
  \/ RequestMint
  \/ PushCallback
  \/ PollStartOverlapping
  \/ PollBlockNumberStep
  \/ PollFailedStep
  \/ PollGotLogsStep
  \/ PollNextStep
  \/ MintToSentStep
  \/ MintToRejectedStep
  \/ TxConfirmedStep
  \/ TxWaitRejectedStep
  \/ ReportEndStep
  \/ BackoffDoneStep
  \/ cleanupExpired

SpecWatch == Init /\ [][NextWatch]_vars

\* Every await of the drain loop returns: the promise of mintTo, of tx.wait and
\* of the report settles one way or the other, and the 30 s timer fires.
SpecFair == Init /\ [][NextPush]_vars /\ WF_vars(LoopStep)

\* The monitor and the dispatcher in a run where the sweep timer does not fire:
\* the clock moves, requests and transfers arrive and the drain loop runs, and
\* no ledger entry or processed hash is ever removed.  Every await of the drain
\* loop returns, as in SpecFair.
NextDrain ==
  \/ Tick
  \/ RequestMint
  \/ PushCallback
  \/ MintToSentStep
  \/ MintToRejectedStep
  \/ TxConfirmedStep
  \/ TxWaitRejectedStep
  \/ ReportEndStep
  \/ BackoffDoneStep

SpecDrain == Init /\ [][NextDrain]_vars /\ WF_vars(LoopStep)

\* The server behind its HTTP routes, configured or not.  The constructor
\* starts the monitoring only with usdcContract, which exists only together
\* with the mint contract (lines 52-58, 79): without it no log is delivered.
InitApi == InitMonitor /\ contract \in BOOLEAN

Monitoring == contract /\ PushCallback

NextApi ==
  \/ Tick
  \/ RequestMintStep
  \/ PaymentStatusStep
  \/ CheckPendingStep
  \/ Monitoring
  \/ MintToSentStep
  \/ MintToRejectedStep
  \/ TxConfirmedStep
  \/ TxWaitRejectedStep
  \/ ReportEndStep
  \/ BackoffDoneStep
  \/ cleanupExpired

SpecApi == InitApi /\ [][NextApi]_vars

\* The mint collaborator eventually accepts the item of address s: the send and
\* the confirmation wait of a submission for s do not fail forever.
MintSendSucceeds(s) ==
  \E i \in DOMAIN loops : loops[i].mintRequest.userAddress = s /\ MintToSent(i)
MintWaitSucceeds(s) ==
  \E i \in DOMAIN loops : loops[i].mintRequest.userAddress = s /\ TxConfirmed(i)

\* The monitor fed by the poll ticks alone, on a clock that stands still.
NextPoll ==
  \/ RequestMint
  \/ PollStart
  \/ PollBlockNumberStep
  \/ PollFailedStep
  \/ PollGotLogsStep
  \/ PollNextStep
  \/ MintToSentStep
  \/ MintToRejectedStep
  \/ TxConfirmedStep
  \/ TxWaitRejectedStep
  \/ ReportEndStep
  \/ BackoffDoneStep
  \/ cleanupExpired

\* Watcher and dispatcher are weakly fair (the awaits of a poll tick and of the
\* drain loop return) and mintTo eventually succeeds for every address.
SpecPay ==
  /\ Init /\ [][NextPoll]_vars
  /\ WF_vars(PollBlockNumberStep \/ PollGotLogsStep \/ PollNextStep)
  /\ WF_vars(LoopStep)
  /\ \A u \in Users :
       /\ SF_vars(MintSendSucceeds(toLowerCase(Addr(u, "checksum"))))
       /\ SF_vars(MintWaitSucceeds(toLowerCase(Addr(u, "checksum"))))

\* The mint contract rejects every mintTo for one address (a mint that can
\* never succeed, e.g. a revert on every call); for the other addresses mintTo
\* settles either way.
RejectedAddress == toLowerCase(Addr("a", "checksum"))

MintToSentOthers ==
  \E i \in DOMAIN loops :
    loops[i].mintRequest.userAddress # RejectedAddress /\ MintToSent(i)

NextRejecting ==
  \/ Tick
  \/ RequestMint
  \/ PushCallback
  \/ MintToSentOthers
  \/ MintToRejectedStep
  \/ TxConfirmedStep
  \/ TxWaitRejectedStep
  \/ ReportEndStep
  \/ BackoffDoneStep
  \/ cleanupExpired

\* Every await of the drain loop returns, as in SpecFair.
SpecRejecting ==
  /\ Init /\ [][NextRejecting]_vars
  /\ WF_vars(MintToSentOthers \/ MintToRejectedStep \/ TxConfirmedStep
               \/ TxWaitRejectedStep \/ ReportEndStep \/ BackoffDoneStep)

\* The watcher with both feeds, the failed poll ticks being counted, on a clock
\* that stands still.
NextPolling ==
  \/ RequestMint
  \/ PushCallback
  \/ PollStart
  \/ PollBlockNumberStep
  \/ PollFailedNoted
  \/ PollGotLogsStep
  \/ PollNextStep
  \/ MintToSentStep
  \/ MintToRejectedStep
  \/ TxConfirmedStep
  \/ TxWaitRejectedStep
  \/ ReportEndStep
  \/ BackoffDoneStep
  \/ cleanupExpired

SpecPolling == Init /\ [][NextPolling]_vars

\* The monitor with a mint contract and a report endpoint that never fail, on a
\* clock that stands still and with no sweep: every delivery of a log after
\* the first finds its hash in the processed set, so transfers stop arriving.
\* Every await of the drain loop returns.
ReportSucceedsStep == \E i \in DOMAIN loops : ReportEnd(i, TRUE)

NextSucceeding ==
  \/ RequestMint
  \/ PushCallback
  \/ MintToSentStep
  \/ TxConfirmedStep
  \/ ReportSucceedsStep
  \/ BackoffDoneStep

SpecSucceeding ==
  /\ Init /\ [][NextSucceeding]_vars
  /\ WF_vars(MintToSentStep \/ TxConfirmedStep \/ ReportSucceedsStep \/ BackoffDoneStep)

\* ======================================================================
\* Properties
\* ======================================================================
LowerAddrs == {toLowerCase(Addr(u, "checksum")) : u \in Users}

\* the ledger entry of payment id pid
Request(pm, pid) == pm[IndexOf(pm, pid)]

\* the items waiting in the queue, and those a drain loop holds
QueueItems == SeqToSet(mintQueue)
LoopItems  == {loops[i].mintRequest : i \in DOMAIN loops}

\* A step in which handleUSDCTransfer got past the processed-set check and the
\* amount check: only such a step adds a hash to the processed set.
Acts == Len(processedTxHashes') = Len(processedTxHashes) + 1
ActedHash == processedTxHashes'[Len(processedTxHashes')]

\* The queue item such a step creates: it is at the tail of the queue, or the
\* drain loop the step starts has taken it.
NewItem ==
  IF Len(loops') > Len(loops) THEN loops'[Len(loops')].mintRequest
  ELSE mintQueue'[Len(mintQueue')]

\* The items the step adds to queue and loops together (as a count).
LiveCount(q, l) == Len(q) + Len(l)

\* The creation numbers of the requests of address s that wait for payment.
WaitingFor(pm, s) == {pm[i].paymentId.n : i \in {j \in DOMAIN pm : IsWaitingFor(pm[j], s)}}
MinOf(S) == CHOOSE m \in S : \A x \in S : m <= x

\* ---------------------------------------------------------------------
\* C1: once the mint of a queue item is confirmed, the item is never put back
\* on the queue and mintTo is never called for it again (matched and 'auto-'
\* items alike).  Stated on the states: no item whose mint is confirmed waits
\* in the queue or is being submitted.
C1_MintedItemIsDiscarded ==
  /\ \A it \in QueueItems : it.paymentId \notin minted
  /\ \A i \in DOMAIN loops :
       loops[i].pc \in {"mintTo", "txWait"} => loops[i].mintRequest.paymentId \notin minted

\* ---------------------------------------------------------------------
\* the state part and the step part of C2_ActsOncePerHash
C2_OncePerHash ==
  \A h \in TxHashes :
    /\ acted[h] <= 1
    /\ acted[h] = 1 <=> Seen(h)

C2_Step ==
  Acts =>
    /\ ~Seen(ActedHash)
    /\ LiveCount(mintQueue', loops') = LiveCount(mintQueue, loops) + 1
    /\ NewItem.txHash = ActedHash
    /\ Len(pendingMints') = Len(pendingMints)
    /\ Cardinality({i \in DOMAIN pendingMints : pendingMints'[i] # pendingMints[i]}) <= 1

\* C2: however often and in whatever interleaving the push callback and the
\* (possibly overlapping) poll ticks deliver the logs of a transaction,
\* handleUSDCTransfer gets past its processed-set check at most once for that
\* hash as long as the sweep has not dropped the hash from the set; the one
\* pass enqueues one item and changes at most one ledger entry, and it happens
\* only for a hash that is not in the set (check and add are one step).
C2_ActsOncePerHash == []C2_OncePerHash /\ [][C2_Step]_vars

\* two poll ticks overlap and one of them has just delivered a log whose hash
\* was already processed
C2_Witness ==
  /\ Len(polls) = 2
  /\ \E i \in DOMAIN polls :
       /\ polls[i].outcome = "duplicate"
       /\ \E h \in TxHashes : acted[h] = 1

\* ---------------------------------------------------------------------
\* what C3_EarliestRequestIsMatched asks of one step
C3_Step ==
  /\ Len(pendingMints') > Len(pendingMints) =>
       LET r == pendingMints'[Len(pendingMints')] IN
         /\ \A i \in DOMAIN pendingMints : pendingMints[i].paymentId # r.paymentId
         /\ r.status = "waiting_for_payment"
  /\ \A s \in LowerAddrs :
       (Acts /\ NewItem.userAddress = s /\ Cardinality(WaitingFor(pendingMints, s)) >= 2) =>
         LET first == ReqId(MinOf(WaitingFor(pendingMints, s))) IN
           /\ DOMAIN pendingMints' = DOMAIN pendingMints
           /\ \A i \in DOMAIN pendingMints :
                IF pendingMints[i].paymentId = first
                  THEN /\ pendingMints'[i].status = "payment_received"
                       /\ pendingMints'[i].paymentId = first
                  ELSE pendingMints'[i] = pendingMints[i]

\* C3: payment ids are distinct and a new request waits for payment; when a
\* qualifying transfer from A arrives while two or more requests of A wait, the
\* earliest created of them becomes payment_received and every other ledger
\* entry stays as it is.
C3_EarliestRequestIsMatched == [][C3_Step]_vars

\* two requests of one address, both created before the payment that the
\* earlier one took; the later one still waits
C3_Witness ==
  \E i, j \in DOMAIN pendingMints :
    /\ i < j
    /\ pendingMints[i].userAddress = pendingMints[j].userAddress
    /\ pendingMints[i].status = "payment_received"
    /\ pendingMints[j].status = "waiting_for_payment"
    /\ pendingMints[j].timestamp < pendingMints[i].paidAt

\* ---------------------------------------------------------------------
\* what C4_Claimed_SyntheticRequest asks of one step
C4_Claimed_Step ==
  \A s \in LowerAddrs :
    (Acts /\ NewItem.userAddress = s /\ WaitingFor(pendingMints, s) = {}) =>
      /\ Len(pendingMints') = Len(pendingMints) + 1
      /\ pendingMints'[Len(pendingMints')].userAddress = s
      /\ pendingMints'[Len(pendingMints')].status = "payment_received"

C4_Step ==
  \A s \in LowerAddrs :
    (Acts /\ NewItem.userAddress = s /\ WaitingFor(pendingMints, s) = {}) =>
      /\ pendingMints' = pendingMints
      /\ LiveCount(mintQueue', loops') = LiveCount(mintQueue, loops) + 1
      /\ NewItem.paymentId.auto
      /\ ~HasPending(pendingMints', NewItem.paymentId)
      /\ NewItem.txHash = ActedHash
      /\ NewItem \notin (QueueItems \cup LoopItems)

C5_Step ==
  \A s \in LowerAddrs :
    (Acts /\ NewItem.userAddress = s /\ WaitingFor(pendingMints, s) # {}) =>
      \E k \in DOMAIN pendingMints :
        /\ IsWaitingFor(pendingMints[k], s)
        /\ pendingMints' = [pendingMints EXCEPT ![k] =
               [@ EXCEPT !.status = "payment_received", !.txHash = ActedHash, !.paidAt = now]]
        /\ ActedHash # NoHash
        /\ ~(ActedHash \in SeqToSet(processedTxHashes))
        /\ LiveCount(mintQueue', loops') = LiveCount(mintQueue, loops) + 1
        /\ NewItem = Item(pendingMints[k].paymentId, s, ActedHash)

\* C5: when a qualifying, not yet processed transfer from S finds a waiting
\* request of S, that request gets the transfer's hash, paidAt and status
\* payment_received, exactly one item {paymentId, S, hash} is enqueued, and no
\* other ledger entry changes.
C5_MatchedRequestTakesPayment == [][C5_Step]_vars

\* a request has taken a payment and its item is in the queue or in the loop
C5_Witness ==
  \E i \in DOMAIN pendingMints :
    /\ pendingMints[i].status = "payment_received"
    /\ pendingMints[i].txHash # NoHash
    /\ pendingMints[i].paidAt # NoTime
    /\ Item(pendingMints[i].paymentId, pendingMints[i].userAddress, pendingMints[i].txHash)
         \in QueueItems \cup LoopItems

\* the payment ids an item can carry
PaymentIds == {ReqId(n) : n \in 1..MaxRequests} \cup {AutoId(n) : n \in 1..MaxAuto}

\* loop i leaves its report await in this step
ReportEnds(i) ==
  /\ loops[i].pc = "report"
  /\ (i \in DOMAIN loops' => loops'[i] # loops[i])

\* loop i sees mintTo or tx.wait reject in this step
MintFails(i) ==
  /\ loops[i].pc \in {"mintTo", "txWait"}
  /\ i \in DOMAIN loops'
  /\ loops'[i].pc = "backoff"

\* ---------------------------------------------------------------------
\* what C6_SuccessCompletesRequest asks of one step
C6_Step ==
  \A i \in DOMAIN loops :
    (ReportEnds(i) /\ HasPending(pendingMints, loops[i].mintRequest.paymentId)) =>
      /\ HasPending(pendingMints', loops[i].mintRequest.paymentId)
      /\ Request(pendingMints', loops[i].mintRequest.paymentId).status = "completed"
      /\ Request(pendingMints', loops[i].mintRequest.paymentId).mintTxHash # NoHash
      /\ Request(pendingMints', loops[i].mintRequest.paymentId).completedAt # NoTime

\* C6: when the mint of an item whose payment id is in the ledger is confirmed
\* and the report is over, the request has mintTxHash and completedAt and its
\* status is completed.
C6_SuccessCompletesRequest == [][C6_Step]_vars

\* ---------------------------------------------------------------------
\* what C7_Claimed_FailureMarksRequest asks of one step
C7_Claimed_Step ==
  \A i \in DOMAIN loops :
    (MintFails(i) /\ HasPending(pendingMints, loops[i].mintRequest.paymentId)) =>
      Request(pendingMints', loops[i].mintRequest.paymentId).status = "mint_failed"

C7_Step ==
  \A i \in DOMAIN loops :
    (MintFails(i) /\ HasPending(pendingMints, loops[i].mintRequest.paymentId)) =>
      /\ pendingMints' = pendingMints
      /\ Request(pendingMints', loops[i].mintRequest.paymentId).status = "payment_received"
      /\ mintQueue' = Append(mintQueue, loops[i].mintRequest)

Sleeping(p) == \E i \in DOMAIN loops : loops[i].pc = "backoff" /\ loops[i].mintRequest.paymentId = p
Submitting(p) == \E i \in DOMAIN loops : loops[i].pc = "mintTo" /\ loops[i].mintRequest.paymentId = p

C8_Step ==
  \A i \in DOMAIN loops : MintFails(i) =>
    /\ mintQueue' = Append(mintQueue, loops[i].mintRequest)
    /\ loops'[i].mintRequest = loops[i].mintRequest

\* C8: after a failed mintTo the same item is put back on the queue, and once
\* the loop sleeps after a failure of an item, mintTo is attempted for that
\* item again.
C8_FailedItemIsRetried ==
  /\ [][C8_Step]_vars
  /\ \A p \in PaymentIds : Sleeping(p) ~> Submitting(p)

\* the loop sleeps after the mint of an 'auto-' item was rejected, the item
\* being back at the tail of the queue
C8_Witness ==
  \E i \in DOMAIN loops :
    /\ loops[i].pc = "backoff"
    /\ loops[i].mintRequest.paymentId.auto
    /\ loops[i].mintRequest.paymentId \notin minted
    /\ mintQueue # << >>
    /\ mintQueue[Len(mintQueue)] = loops[i].mintRequest

\* ---------------------------------------------------------------------
\* the state part and the step part of C9_SingleDrainLoop
C9_OneLoop ==
  /\ Len(loops) <= 1
  /\ isProcessing <=> Len(loops) = 1

C9_Step ==
  (Acts /\ isProcessing) =>
    /\ loops' = loops
    /\ Len(mintQueue') = Len(mintQueue) + 1
    /\ SubSeq(mintQueue', 1, Len(mintQueue)) = mintQueue

\* C9: at most one drain loop is active, so at most one mintTo submission is in
\* flight; the flag is set exactly while a loop is active; a processMintQueue
\* call made while the flag is set (the one that ends handleUSDCTransfer)
\* leaves the queue as the handler's push left it and starts no loop.
C9_SingleDrainLoop == []C9_OneLoop /\ [][C9_Step]_vars

\* a loop is submitting one item while another item waits in the queue: the
\* waiting one was enqueued while the loop was active
C9_Witness ==
  /\ Len(loops) = 1
  /\ loops[1].pc \in {"mintTo", "txWait"}
  /\ \E j \in DOMAIN mintQueue : mintQueue[j].paymentId # loops[1].mintRequest.paymentId

\* ---------------------------------------------------------------------
\* item p waits in the queue
Queued(p) == \E j \in DOMAIN mintQueue : mintQueue[j].paymentId = p

\* what C10_QueuedItemIsSubmitted asks of one step: a loop ends only on an
\* empty queue
C10_Step == Len(loops') < Len(loops) => mintQueue' = << >>

\* C10: an item that waits in the queue always has an active loop, the loop
\* does not end while an item waits, and it eventually takes the item off the
\* queue and submits it.
C10_QueuedItemIsSubmitted ==
  /\ [](mintQueue # << >> => Len(loops) >= 1)
  /\ [][C10_Step]_vars
  /\ \A p \in PaymentIds : Queued(p) ~> Submitting(p)

\* an item was enqueued during the backoff wait of another item's loop
C10_Witness ==
  /\ Len(loops) = 1
  /\ loops[1].pc = "backoff"
  /\ Len(mintQueue) >= 2
  /\ mintQueue[Len(mintQueue)].paymentId # loops[1].mintRequest.paymentId

\* ---------------------------------------------------------------------
\* the place of a log on the chain
LogIndex(l) == CHOOSE n \in DOMAIN ChainLogs : ChainLogs[n] = l

\* the log poll tick i, suspended in its for loop, has just passed to
\* handleUSDCTransfer: the one before the next log of its window
JustHandled(i) == ChainLogs[LogIndex(Head(polls[i].logs)) - 1]

\* a qualifying transfer from s has just reached handleUSDCTransfer
Reached(s) ==
  \E i \in DOMAIN polls :
    /\ polls[i].pc = "deliver"
    /\ JustHandled(i).decodable
    /\ Qualifies(JustHandled(i))
    /\ toLowerCase(JustHandled(i).from) = s

\* a mint to s has just been confirmed
MintConfirmed(s) ==
  \E i \in DOMAIN loops : loops[i].pc = "report" /\ loops[i].mintRequest.userAddress = s

\* C11: when watcher and dispatcher are fair and mintTo eventually succeeds, a
\* run in which a qualifying transfer from S reaches handleUSDCTransfer is a
\* run in which a mint to S is confirmed (a consequence of the claim that a
\* repeated delivery of an already minted transfer does not refute).
C11_PaidSenderIsMinted ==
  \A s \in LowerAddrs : (<>Reached(s)) => (<>MintConfirmed(s))

\* ---------------------------------------------------------------------
\* the entry of pendingMints' with the payment id of entry i of pendingMints,
\* when no step removes or changes it
KeepsEntry(i) ==
  \A j \in DOMAIN pendingMints' :
    pendingMints'[j].paymentId = pendingMints[i].paymentId => pendingMints'[j] = pendingMints[i]

\* what C12_ExpiredRequestIsNotMatched asks of one step
C12_Step ==
  \A i \in DOMAIN pendingMints :
    (pendingMints[i].status = "waiting_for_payment" /\ IsExpired(pendingMints[i], now)) =>
      KeepsEntry(i)

\* C12: a waiting request older than the 30-minute window, swept or not, is
\* not matched by a transfer that arrives then: no step changes its status or
\* its payment hash.
C12_ExpiredRequestIsNotMatched == [][C12_Step]_vars

\* ---------------------------------------------------------------------
\* C13: for a request that is still in the ledger and older than 30 minutes,
\* getPaymentStatus answers found with status expired, whatever status is
\* stored (also when the payment came after the window had passed) and
\* although the sweep has not removed the record.
C13_OldRequestReportsExpired ==
  \A i \in DOMAIN pendingMints :
    now - pendingMints[i].timestamp > EXPIRY_MS =>
      /\ getPaymentStatus(pendingMints, pendingMints[i].paymentId, now).found
      /\ getPaymentStatus(pendingMints, pendingMints[i].paymentId, now).status = "expired"

\* a request that took its payment after its window had passed is still in
\* the ledger, stored as payment_received, and is reported as expired
C13_Witness ==
  \E i \in DOMAIN pendingMints :
    /\ pendingMints[i].status = "payment_received"
    /\ pendingMints[i].paidAt - pendingMints[i].timestamp > EXPIRY_MS
    /\ getPaymentStatus(pendingMints, pendingMints[i].paymentId, now).status = "expired"

\* ---------------------------------------------------------------------
\* the state part and the step part of C14_UnknownIdIsNotFound
C14_NotFound ==
  \A pid \in AskedIds :
    ~HasPending(pendingMints, pid) =>
      getPaymentStatus(pendingMints, pid, now) = [found |-> FALSE, error |-> "Payment ID not found"]

C14_Step == \A pid \in AskedIds : PaymentStatusRoute(pid) => UNCHANGED vars

\* C14: for a payment id that is not in the ledger (never created, or removed
\* by the sweep) getPaymentStatus answers found:false, and the query changes
\* no state.
C14_UnknownIdIsNotFound == []C14_NotFound /\ [][C14_Step]_vars

\* the sweep has removed a request that had been created, and its id is
\* answered with found:false
C14_Witness ==
  /\ nextPaymentId >= 1
  /\ ~HasPending(pendingMints, ReqId(1))
  /\ ~getPaymentStatus(pendingMints, ReqId(1), now).found

\* ---------------------------------------------------------------------
\* what C15_PaymentHashIsImmutable asks of one step
C15_Step ==
  \A i \in DOMAIN pendingMints :
    pendingMints[i].txHash # NoHash =>
      \A j \in DOMAIN pendingMints' :
        pendingMints'[j].paymentId = pendingMints[i].paymentId =>
          pendingMints'[j].txHash = pendingMints[i].txHash

\* C15: the payment hash of a request (field txHash), once set, is never
\* changed by any step: further transfers, mint attempts, failures, retries.
C15_PaymentHashIsImmutable == [][C15_Step]_vars

\* a request holds the hash of its payment while its item, whose mint was
\* confirmed once, is in a further attempt, and another transfer has been
\* processed since
C15_Witness ==
  \E i \in DOMAIN pendingMints, k \in DOMAIN loops :
    /\ pendingMints[i].txHash # NoHash
    /\ loops[k].mintRequest.paymentId = pendingMints[i].paymentId
    /\ loops[k].mintRequest.txHash = pendingMints[i].txHash
    /\ pendingMints[i].paymentId \in minted
    /\ loops[k].pc \in {"backoff", "mintTo", "txWait"}
    /\ \E h \in TxHashes : h # pendingMints[i].txHash /\ Seen(h)

\* ---------------------------------------------------------------------
\* the place of a status on the path of a request
Rank(status) ==
  CASE status = "waiting_for_payment" -> 0
    [] status = "payment_received" -> 1
    [] status = "minting" -> 2
    [] status \in {"completed", "mint_failed"} -> 3

\* what C16_StatusMovesForward asks of one step
C16_Step ==
  \A i \in DOMAIN pendingMints, j \in DOMAIN pendingMints' :
    pendingMints'[j].paymentId = pendingMints[i].paymentId =>
      Rank(pendingMints'[j].status) >= Rank(pendingMints[i].status)

\* C16: the stored status of a request never moves backwards on the path
\* waiting_for_payment, payment_received, minting, completed or mint_failed; a
\* request that has left waiting_for_payment does not return to it.
C16_StatusMovesForward == [][C16_Step]_vars

\* a request has left waiting_for_payment, the dispatcher has worked on its
\* item, and a later request has been created
C16_Witness ==
  \E i, j \in DOMAIN pendingMints :
    /\ i < j
    /\ pendingMints[i].status = "payment_received"
    /\ pendingMints[i].paymentId \in minted
    /\ pendingMints[j].timestamp >= pendingMints[i].paidAt

\* ---------------------------------------------------------------------
\* what C17_RequestIsMatchedOnce asks of one step
C17_Step ==
  Acts =>
    /\ Len(pendingMints') = Len(pendingMints)
    /\ \A i \in DOMAIN pendingMints :
         pendingMints[i].status # "waiting_for_payment" => pendingMints'[i] = pendingMints[i]
    /\ IF \E i \in DOMAIN pendingMints :
            /\ pendingMints[i].status = "waiting_for_payment"
            /\ pendingMints[i].userAddress = NewItem.userAddress
         THEN \E i \in DOMAIN pendingMints :
                /\ pendingMints[i].status = "waiting_for_payment"
                /\ pendingMints[i].userAddress = NewItem.userAddress
                /\ pendingMints[i].paymentId = NewItem.paymentId
                /\ \A j \in 1..(i - 1) :
                     ~(/\ pendingMints[j].status = "waiting_for_payment"
                       /\ pendingMints[j].userAddress = NewItem.userAddress)
         ELSE /\ pendingMints' = pendingMints
              /\ NewItem.paymentId.auto

\* C17: a request is matched to at most one transfer: a transfer that is acted
\* on leaves every request that is no longer waiting as it is; it takes the
\* next (earliest) waiting request of its sender or, when there is none, the
\* path of a payment without request.
C17_RequestIsMatchedOnce == [][C17_Step]_vars

\* a request of S holds the hash of one transfer while an item of S with the
\* hash of another transfer, made for the next request of S or without
\* request, is in the queue or in the loop
C17_Witness ==
  \E i \in DOMAIN pendingMints, it \in QueueItems \cup LoopItems :
    /\ pendingMints[i].status = "payment_received"
    /\ it.userAddress = pendingMints[i].userAddress
    /\ it.txHash # pendingMints[i].txHash
    /\ it.paymentId # pendingMints[i].paymentId
    /\ Seen(it.txHash) /\ Seen(pendingMints[i].txHash)

C19_Step ==
  \A i \in DOMAIN loops :
    loops[i].pc = "report" =>
      /\ ReportEnd(i, FALSE) <=> ReportEnd(i, TRUE)
      /\ ReportEnd(i, FALSE) =>
           /\ pendingMints' = pendingMints
           /\ ~HasPending(pendingMints, loops[i].mintRequest.paymentId) =>
                /\ loops[i].mintRequest \notin SeqToSet(mintQueue')
                /\ \A k \in DOMAIN loops' : loops'[k].pc # "backoff"

\* C19: a report that fails after a confirmed mint changes nothing in what the
\* dispatcher does: the step after a failed report is the step after a
\* successful one, the ledger is not written, and an item that the successful
\* case discards is discarded, with no backoff wait.
C19_ReportFailureIsSwallowed == [][C19_Step]_vars

\* an item of a payment without request has been minted and, its report over,
\* discarded: it is neither in the queue nor in a loop
C19_Witness ==
  /\ nextAutoId >= 1
  /\ \A it \in QueueItems \cup LoopItems : ~it.paymentId.auto

Windows ==
  {SubSeq(ChainLogs, w[1], w[2]) :
     w \in {x \in (DOMAIN ChainLogs) \X (DOMAIN ChainLogs) :
              x[1] <= x[2] /\ x[2] - x[1] < MaxPollLogs}}

\* a step in which a poll tick passes log to handleUSDCTransfer: as the first
\* log of the answer of getLogs, or as the next log of its for loop
PollHandles(log) ==
  /\ polls' # polls
  /\ \E i \in DOMAIN polls, w \in Windows :
       /\ Head(w) = log
       /\ \/ polls[i].pc = "getLogs"
          \/ polls[i].pc = "deliver" /\ polls[i].logs = w
       /\ PollDeliver(i, w)

\* the parts of the monitor a transfer that is acted on writes
WatcherUnchanged ==
  UNCHANGED << pendingMints, mintQueue, processedTxHashes, loops, isProcessing >>

\* what C21_OtherTransfersAreIgnored asks of one step
C21_Step ==
  \A n \in DOMAIN ChainLogs :
    PollHandles(ChainLogs[n]) =>
      /\ (/\ ChainLogs[n].decodable
          /\ \/ toLowerCase(ChainLogs[n].to) # toLowerCase(USDC_PAYMENT_ADDRESS)
             \/ ChainLogs[n].value < 1000000) => WatcherUnchanged
      /\ (/\ ChainLogs[n].decodable
          /\ toLowerCase(ChainLogs[n].to) = toLowerCase(USDC_PAYMENT_ADDRESS)
          /\ ChainLogs[n].value = 1000000
          /\ ~Seen(ChainLogs[n].transactionHash)) =>
           (Acts /\ ActedHash = ChainLogs[n].transactionHash)

\* C21: a transfer log to another recipient, or of less than 1000000 base
\* units, is ignored: handleUSDCTransfer leaves ledger, queue, processed set,
\* loops and flag as they are; a transfer of exactly 1000000 is acted on.
C21_OtherTransfersAreIgnored == [][C21_Step]_vars

\* a poll tick has just passed a log of 999999 base units, or a log to
\* another recipient, to handleUSDCTransfer, which ignored it, while a request
\* of its sender waits
C21_Witness ==
  \E i \in DOMAIN polls :
    /\ polls[i].pc = "deliver"
    /\ polls[i].outcome = "ignored"
    /\ \/ JustHandled(i).value < 1000000
       \/ toLowerCase(JustHandled(i).to) # toLowerCase(USDC_PAYMENT_ADDRESS)
    /\ \E r \in DOMAIN pendingMints : IsWaitingFor(pendingMints[r], toLowerCase(JustHandled(i).from))

\* ---------------------------------------------------------------------
\* the ledger gets one more entry, a waiting request of address a, and keeps
\* the entries it has
AddsRequest(a) ==
  /\ Len(pendingMints') = Len(pendingMints) + 1
  /\ SubSeq(pendingMints', 1, Len(pendingMints)) = pendingMints
  /\ pendingMints'[Len(pendingMints')].status = "waiting_for_payment"
  /\ pendingMints'[Len(pendingMints')].userAddress = toLowerCase(a)
  /\ UNCHANGED << processedTxHashes, mintQueue, isProcessing, loops, polls >>

\* what C22_BadRequestIsRejected asks of one step
C22_Step ==
  /\ \A a \in Addresses :
       requestMint(a) =>
         IF a.cs \in {"absent", "badchecksum"}
           THEN response' = 400 /\ RouteFrame
           ELSE IF ~contract
             THEN response' = 503 /\ RouteFrame
             ELSE response' = 202 /\ AddsRequest(a)
  /\ Len(pendingMints') > Len(pendingMints) => (contract /\ response' = 202)

\* C22: POST /request-mint answers 400 for an absent or malformed address and
\* 503 when no contract is configured, and then changes nothing in the
\* monitor; only a valid address with a configured contract adds a request,
\* exactly one, waiting for payment.
C22_BadRequestIsRejected == [][C22_Step]_vars

\* a request was created, and a later call with a bad address was answered 400
C22_Witness ==
  /\ response = 400
  /\ Len(pendingMints) = 1

\* ---------------------------------------------------------------------
\* what C23_SweepRemovesOldRequests asks of one step
C23_Step ==
  cleanupExpired =>
    /\ \A i \in DOMAIN pendingMints :
         IF now - pendingMints[i].timestamp > 30 * 60 * 1000
           THEN ~HasPending(pendingMints', pendingMints[i].paymentId)
           ELSE pendingMints[i] \in SeqToSet(pendingMints')
    /\ Len(pendingMints') <= Len(pendingMints)
    /\ SeqToSet(pendingMints') \subseteq SeqToSet(pendingMints)

\* C23: cleanupExpired removes every request older than 30 minutes, whatever
\* its status (also a paid request whose mint is queued or in flight), and
\* leaves every younger request as it is.
C23_SweepRemovesOldRequests == [][C23_Step]_vars

\* the sweep has removed a paid request whose item is still in the queue or in
\* the loop, and has left a younger request in the ledger
C23_Witness ==
  /\ \E it \in QueueItems \cup LoopItems :
       ~it.paymentId.auto /\ ~HasPending(pendingMints, it.paymentId)
  /\ \E i \in DOMAIN pendingMints : now - pendingMints[i].timestamp <= 30 * 60 * 1000

\* ---------------------------------------------------------------------
\* C24 as claimed: the processed set never holds more hashes than its cap.
C24_Claimed_HardCap == Len(processedTxHashes) <= KEEP_LAST

\* what C24_SweepTrimsProcessedSet asks of one step
C24_Step ==
  /\ cleanupExpired =>
       /\ Len(processedTxHashes') <= KEEP_LAST
       /\ IF Len(processedTxHashes) > KEEP_LAST
            THEN processedTxHashes' =
                   SubSeq(processedTxHashes, Len(processedTxHashes) - KEEP_LAST + 1,
                          Len(processedTxHashes))
            ELSE processedTxHashes' = processedTxHashes
  /\ Len(processedTxHashes') < Len(processedTxHashes) => cleanupExpired
  /\ Acts => SubSeq(processedTxHashes', 1, Len(processedTxHashes)) = processedTxHashes

\* C24 (amended): the cap is enforced by the sweep only: handleUSDCTransfer
\* adds a hash whatever the size of the set, so between two sweeps the set can
\* hold more hashes than the cap; a sweep that finds more keeps exactly the
\* most recently added ones, up to the cap (the oldest go first), and no
\* other step removes a hash.
C24_SweepTrimsProcessedSet == [][C24_Step]_vars

\* the sweep has evicted the hash of an item that is still in the queue or in
\* the loop, and kept the hash added last
C24_Witness ==
  /\ Len(processedTxHashes) = KEEP_LAST
  /\ \E it \in QueueItems \cup LoopItems : ~Seen(it.txHash)

\* ---------------------------------------------------------------------
\* a request in a terminal state: completed, mint_failed, or expired (older
\* than the payment window)
Terminal(r) ==
  \/ r.status \in {"completed", "mint_failed", "expired"}
  \/ now - r.timestamp > EXPIRY_MS

\* the indexes of the requests of address a that are in no terminal state
Active(a) ==
  {i \in DOMAIN pendingMints :
     pendingMints[i].userAddress = toLowerCase(a) /\ ~Terminal(pendingMints[i])}

\* C25: the lookup by address answers hasPending true with the first request
\* of the lower-cased address, in insertion order, that is in no terminal
\* state, and hasPending false when the address has no such request.
C25_LookupSkipsTerminalRequests ==
  \A u \in Users, cs \in {"lower", "checksum"} :
    IF Active(Addr(u, cs)) = {}
      THEN ~checkPending(pendingMints, Addr(u, cs)).hasPending
      ELSE /\ checkPending(pendingMints, Addr(u, cs)).hasPending
           /\ checkPending(pendingMints, Addr(u, cs)).paymentId =
                pendingMints[MinOf(Active(Addr(u, cs)))].paymentId

\* ---------------------------------------------------------------------
\* what C26_QueriesAreReadOnly asks of one step
C26_Step ==
  (PaymentStatusStep \/ CheckPendingStep) =>
    UNCHANGED <<pendingMints, mintQueue, processedTxHashes, isProcessing>>

\* C26: getPaymentStatus and the check-pending lookup are read-only: a step of
\* either query leaves the ledger, the mint queue, the processed-hash set and
\* the isProcessing flag as they were, also when the answer is expired or
\* found:false.
C26_QueriesAreReadOnly == [][C26_Step]_vars

\* a drain is running, a request older than the window is still in the ledger
\* and answered as expired and as pending, and an unknown id is answered with
\* found:false
C26_Witness ==
  /\ isProcessing
  /\ processedTxHashes # <<>>
  /\ \E i \in DOMAIN pendingMints :
       /\ getPaymentStatus(pendingMints, pendingMints[i].paymentId, now).status = "expired"
       /\ \E cs \in {"lower", "checksum"} :
            checkPending(pendingMints, [pendingMints[i].userAddress EXCEPT !.cs = cs]).hasPending
  /\ ~getPaymentStatus(pendingMints, ReqId(MaxRequests + 1), now).found

\* ---------------------------------------------------------------------
\* mintTo is being called for item p, an item of the address whose mint always
\* fails
SubmittingRejected(p) ==
  \E i \in DOMAIN loops :
    /\ loops[i].pc = "mintTo"
    /\ loops[i].mintRequest.paymentId = p
    /\ loops[i].mintRequest.userAddress = RejectedAddress

\* what C27_RetriesAreNotCapped asks of one step: when the mintTo call for such
\* an item ends, the item is in the queue
C27_Step ==
  \A i \in DOMAIN loops :
    (/\ loops[i].pc = "mintTo"
     /\ loops[i].mintRequest.userAddress = RejectedAddress
     /\ (i \in DOMAIN loops' => loops'[i] # loops[i])) =>
      \E j \in DOMAIN mintQueue' : mintQueue'[j] = loops[i].mintRequest

\* C27: retries are not capped.  When mintTo fails on every attempt for an
\* item, the item is back in the queue after every failure, mintTo is attempted
\* for it again and again without end, and from its first attempt on the drain
\* loop never ends: isProcessing stays true.
C27_RetriesAreNotCapped ==
  /\ [][C27_Step]_vars
  /\ \A p \in PaymentIds :
       /\ [](SubmittingRejected(p) => []<>SubmittingRejected(p))
       /\ [](SubmittingRejected(p) => []isProcessing)

\* the loop sleeps after a failure of an item whose mint always fails, the item
\* is back at the tail of the queue behind an item of another address, and its
\* request has meanwhile been swept from the ledger
C27_Witness ==
  \E i \in DOMAIN loops :
    /\ loops[i].pc = "backoff"
    /\ loops[i].mintRequest.userAddress = RejectedAddress
    /\ ~loops[i].mintRequest.paymentId.auto
    /\ ~HasPending(pendingMints, loops[i].mintRequest.paymentId)
    /\ Len(mintQueue) >= 2
    /\ mintQueue[Len(mintQueue)] = loops[i].mintRequest
    /\ mintQueue[1].userAddress # RejectedAddress

\* ---------------------------------------------------------------------
\* a step in which a poll tick ends in the catch of line 194: the count of the
\* failed ticks goes up, or (the count being at its bound) a tick that awaits
\* getBlockNumber ends
TickFails ==
  \/ failedTicks' > failedTicks
  \/ \E i \in DOMAIN polls : polls[i].pc = "getBlockNumber" /\ polls' = RemoveAt(polls, i)

\* what C28_FailedTickIsHarmless asks of the step in which a tick fails: the
\* monitor is as before, the tick is over, and the timer can start the next
\* tick and the subscription can deliver
C28_FailStep ==
  TickFails =>
    /\ UNCHANGED << pendingMints, mintQueue, processedTxHashes, isProcessing, loops >>
    /\ Len(polls') = Len(polls) - 1
    /\ (ENABLED PollStart)'
    /\ (ENABLED PushCallback)'

\* and of a step in which a tick that runs after a failed one passes a log to
\* handleUSDCTransfer: a transfer of at least one USDC to the payment address
\* whose hash is not in the processed set is acted on
C28_LaterStep ==
  \A n \in DOMAIN ChainLogs :
    (/\ failedTicks > 0
     /\ PollHandles(ChainLogs[n])
     /\ ChainLogs[n].decodable
     /\ toLowerCase(ChainLogs[n].to) = toLowerCase(USDC_PAYMENT_ADDRESS)
     /\ ChainLogs[n].value >= 1000000
     /\ ChainLogs[n].transactionHash \notin SeqToSet(processedTxHashes)) =>
      /\ Acts
      /\ ActedHash = ChainLogs[n].transactionHash
      /\ NewItem.txHash = ChainLogs[n].transactionHash

\* C28: a rejection of getBlockNumber or getLogs inside a poll tick is caught:
\* the step changes no ledger, queue or processed-set state and does not stop
\* the watcher, and a later tick whose window covers a transfer that the failed
\* tick missed handles that transfer.
C28_FailedTickIsHarmless == [][C28_FailStep]_vars /\ [][C28_LaterStep]_vars

\* after a failed tick, a later tick has passed a transfer to
\* handleUSDCTransfer, which acted on it, and goes on with its window
C28_Witness ==
  /\ failedTicks > 0
  /\ \E i \in DOMAIN polls :
       /\ polls[i].pc = "deliver"
       /\ polls[i].outcome \in {"matched", "auto"}
       /\ JustHandled(i).transactionHash \in SeqToSet(processedTxHashes)

\* ---------------------------------------------------------------------
\* the logs that do not decode
Undecodable == {n \in DOMAIN ChainLogs : ~ChainLogs[n].decodable}

\* the hash of a transaction none of whose logs decodes is never in the
\* processed set
C29_NeverProcessed ==
  \A n \in Undecodable :
    (\A m \in DOMAIN ChainLogs :
       ChainLogs[m].transactionHash = ChainLogs[n].transactionHash => m \in Undecodable) =>
      ChainLogs[n].transactionHash \notin SeqToSet(processedTxHashes)

\* what C29_DecodeFailureLeavesNoTrace asks of a step in which a poll tick
\* passes such a log to handleUSDCTransfer, its hash not being in the set
C29_Step ==
  \A n \in Undecodable :
    (/\ PollHandles(ChainLogs[n])
     /\ ChainLogs[n].transactionHash \notin SeqToSet(processedTxHashes)) =>
      /\ WatcherUnchanged
      /\ UNCHANGED << nextAutoId, acted >>
      /\ ChainLogs[n].transactionHash \notin SeqToSet(processedTxHashes')

\* C29: when decoding a log fails inside handleUSDCTransfer the error is
\* caught: the hash is not added to the processed set and ledger, queue and
\* loops are unchanged, so the processed-set check lets a later delivery of
\* the same log through and the log is evaluated again.
C29_DecodeFailureLeavesNoTrace == []C29_NeverProcessed /\ [][C29_Step]_vars

\* a poll tick has just passed a log that does not decode to
\* handleUSDCTransfer, after another transfer was acted on; the hash of the
\* log is not in the processed set
C29_Witness ==
  /\ processedTxHashes # << >>
  /\ \E i \in DOMAIN polls :
       /\ polls[i].pc = "deliver"
       /\ polls[i].outcome = "decodeError"
       /\ ~JustHandled(i).decodable
       /\ JustHandled(i).transactionHash \notin SeqToSet(processedTxHashes)

\* ---------------------------------------------------------------------
\* item p is of a request that the ledger no longer holds
Orphan(p) == ~p.auto /\ ~HasPending(pendingMints, p)

\* what C30_QueuedMintIsNotCancelled asks of one step: a step that removes a
\* payment_received request leaves queue, loops and flag alone, and no step
\* puts back a request that was removed
C30_Step ==
  /\ \A i \in DOMAIN pendingMints :
       (/\ pendingMints[i].status = "payment_received"
        /\ ~HasPending(pendingMints', pendingMints[i].paymentId)) =>
         UNCHANGED << mintQueue, loops, isProcessing >>
  /\ \A n \in 1..nextPaymentId :
       ~HasPending(pendingMints, ReqId(n)) => ~HasPending(pendingMints', ReqId(n))

\* C30: a queued mint is not cancelled.  When cleanupExpired removes a
\* payment_received request, its item stays where it is (waiting in the queue,
\* in flight, or in backoff), mintTo is still submitted for an item that waits
\* or is in backoff, and the removed request does not come back to the ledger.
C30_QueuedMintIsNotCancelled ==
  /\ [][C30_Step]_vars
  /\ \A p \in PaymentIds :
       (Orphan(p) /\ (Queued(p) \/ Sleeping(p))) ~> (Submitting(p) /\ Orphan(p))

\* the sweep has removed the request of an item that waits in the queue while
\* the loop is busy with another item
C30_Witness ==
  \E j \in DOMAIN mintQueue :
    /\ Orphan(mintQueue[j].paymentId)
    /\ mintQueue[j].paymentId \notin minted
    /\ Len(loops) = 1
    /\ loops[1].mintRequest.paymentId # mintQueue[j].paymentId

\* ---------------------------------------------------------------------
\* the items that carry hash h, waiting or held by the loop
ItemsOf(h) == {m \in QueueItems \cup LoopItems : m.txHash = h}

\* what C31_TrimmedHashIsProcessedAgain asks of a step in which a poll tick
\* passes a qualifying log to handleUSDCTransfer while an item of its hash is
\* still around and the hash is no longer in the processed set
C31_Step ==
  \A n \in DOMAIN ChainLogs :
    (/\ PollHandles(ChainLogs[n])
     /\ ChainLogs[n].decodable
     /\ toLowerCase(ChainLogs[n].to) = toLowerCase(USDC_PAYMENT_ADDRESS)
     /\ ChainLogs[n].value >= 1000000
     /\ ChainLogs[n].transactionHash \notin SeqToSet(processedTxHashes)
     /\ ItemsOf(ChainLogs[n].transactionHash) # {}) =>
      /\ Acts
      /\ ActedHash = ChainLogs[n].transactionHash
      /\ NewItem \notin QueueItems \cup LoopItems
      /\ NewItem.txHash = ChainLogs[n].transactionHash
      /\ NewItem.userAddress = toLowerCase(ChainLogs[n].from)
      /\ \/ NewItem.paymentId.auto /\ pendingMints' = pendingMints
         \/ /\ HasPending(pendingMints', NewItem.paymentId)
            /\ Request(pendingMints', NewItem.paymentId).txHash = ChainLogs[n].transactionHash

\* C31: after cleanupExpired has trimmed a hash out of the processed set, a
\* later delivery of a qualifying log with that hash is treated as new: the
\* hash is marked processed again, the payment is matched or handled as an
\* unmatched one, and a second queue item is created for the same transaction.
C31_TrimmedHashIsProcessedAgain == [][C31_Step]_vars

\* a poll tick has just passed a log to handleUSDCTransfer for the second
\* time: two items of the sender carry its hash, which is in the processed set
C31_Witness ==
  \E i \in DOMAIN polls :
    /\ polls[i].pc = "deliver"
    /\ polls[i].outcome \in {"matched", "auto"}
    /\ JustHandled(i).transactionHash \in SeqToSet(processedTxHashes)
    /\ \E x, y \in ItemsOf(JustHandled(i).transactionHash) :
         /\ x.paymentId # y.paymentId
         /\ x.userAddress = toLowerCase(JustHandled(i).from)
         /\ y.userAddress = toLowerCase(JustHandled(i).from)

\* ---------------------------------------------------------------------
\* item m stands for a payment: the chain has a transfer of at least one USDC
\* to the payment address with the item's hash and the item's address as sender
IsPaid(m) ==
  \E n \in DOMAIN ChainLogs :
    /\ ChainLogs[n].decodable
    /\ toLowerCase(ChainLogs[n].to) = toLowerCase(USDC_PAYMENT_ADDRESS)
    /\ ChainLogs[n].value >= 1000000
    /\ ChainLogs[n].transactionHash = m.txHash
    /\ toLowerCase(ChainLogs[n].from) = m.userAddress

\* every item that waits, and every item the loop calls mintTo for, is paid
C32_ItemsArePaid == \A m \in QueueItems \cup LoopItems : IsPaid(m)

\* what C32_NoMintWithoutPayment asks of one step: an item comes into being
\* only in a step that marks its hash processed, and a step that creates a
\* request leaves queue, loops and flag alone
C32_Step ==
  /\ \A m \in (SeqToSet(mintQueue') \cup {loops'[i].mintRequest : i \in DOMAIN loops'})
               \ (QueueItems \cup LoopItems) :
       /\ m.txHash \notin SeqToSet(processedTxHashes)
       /\ m.txHash \in SeqToSet(processedTxHashes')
  /\ Len(pendingMints') > Len(pendingMints) =>
       UNCHANGED << mintQueue, loops, isProcessing >>

\* C32: no mint without payment.  Every item in the queue or in the hands of
\* the drain loop (which calls mintTo for the item's address) was created by
\* handleUSDCTransfer from a qualifying transfer whose sender is that address
\* and whose hash the same step marked processed; creating a request never
\* creates an item or starts the loop.
C32_NoMintWithoutPayment == []C32_ItemsArePaid /\ [][C32_Step]_vars

\* mintTo is being called for a paid item while a request that was created
\* and not paid waits in the ledger, with no item of its own
C32_Witness ==
  /\ \E i \in DOMAIN loops : loops[i].pc = "mintTo" /\ IsPaid(loops[i].mintRequest)
  /\ \E r \in DOMAIN pendingMints :
       /\ pendingMints[r].status = "waiting_for_payment"
       /\ \A m \in QueueItems \cup LoopItems : m.paymentId # pendingMints[r].paymentId

\* ---------------------------------------------------------------------
\* at every suspension point: a waiting item has a loop behind the flag, and a
\* cleared flag means that no loop runs
C33_FlagCoversQueue ==
  /\ mintQueue # << >> => (isProcessing /\ loops # << >>)
  /\ ~isProcessing => loops = << >>

\* what C33_NoLostWakeup asks of one step: the flag is cleared in the very
\* step in which a loop finds the queue empty and ends
C33_Step ==
  /\ (isProcessing /\ ~isProcessing') => (Len(loops') < Len(loops) /\ mintQueue' = << >>)
  /\ Len(loops') < Len(loops) => (~isProcessing' /\ mintQueue = << >>)

\* C33: no lost wake-up.  At every suspension point a non-empty queue has an
\* active drain loop and a set flag, a cleared flag means no loop is running,
\* and the last emptiness test of the loop and the reset of the flag are one
\* step: nothing can enqueue between them.
C33_NoLostWakeup == []C33_FlagCoversQueue /\ [][C33_Step]_vars

\* a drain has ended after the item of an unmatched payment: the queue is
\* empty, no loop runs and the flag is cleared
C33_Witness ==
  /\ nextAutoId >= 1
  /\ mintQueue = << >>
  /\ loops = << >>
  /\ ~isProcessing

Pays(n) ==
  /\ ChainLogs[n].decodable
  /\ toLowerCase(ChainLogs[n].to) = toLowerCase(USDC_PAYMENT_ADDRESS)
  /\ ChainLogs[n].value >= 1000000

\* the pairs of such logs that one transaction carries, from different senders
SameTx ==
  {p \in (DOMAIN ChainLogs) \X (DOMAIN ChainLogs) :
     /\ p[1] # p[2]
     /\ Pays(p[1]) /\ Pays(p[2])
     /\ ChainLogs[p[1]].transactionHash = ChainLogs[p[2]].transactionHash
     /\ toLowerCase(ChainLogs[p[1]].from) # toLowerCase(ChainLogs[p[2]].from)}

\* what C35_SecondLogOfTransactionIsDropped asks of a step in which a poll
\* tick passes the second of two such logs to handleUSDCTransfer, the hash
\* being in the processed set since the first was acted on
C35_Step ==
  \A p \in SameTx :
    (/\ PollHandles(ChainLogs[p[2]])
     /\ ChainLogs[p[2]].transactionHash \in SeqToSet(processedTxHashes)) =>
      /\ UNCHANGED << pendingMints, mintQueue, processedTxHashes, loops, isProcessing,
                      nextAutoId, acted >>

\* C35: the processed set is keyed by transaction hash alone.  When one
\* transaction carries two qualifying transfers to the payment address from
\* two senders, the one delivered first is acted on and the other, delivered
\* while the hash is in the set, is dropped: no ledger change, no queue item
\* and so no mint for its sender.
C35_SecondLogOfTransactionIsDropped == [][C35_Step]_vars

\* a poll tick has just passed the second transfer of a transaction to
\* handleUSDCTransfer, which dropped it: the sender of the first has an item
\* of the transaction, the sender of the second has none and still waits for
\* its payment
C35_Witness ==
  \E i \in DOMAIN polls, p \in SameTx :
    /\ polls[i].pc = "deliver"
    /\ polls[i].outcome = "duplicate"
    /\ JustHandled(i) = ChainLogs[p[2]]
    /\ \E m \in ItemsOf(ChainLogs[p[1]].transactionHash) :
         m.userAddress = toLowerCase(ChainLogs[p[1]].from)
    /\ \A m \in QueueItems \cup LoopItems : m.userAddress # toLowerCase(ChainLogs[p[2]].from)
    /\ \E r \in DOMAIN pendingMints :
         /\ pendingMints[r].userAddress = toLowerCase(ChainLogs[p[2]].from)
         /\ pendingMints[r].status = "waiting_for_payment"

\* ---------------------------------------------------------------------
\* while a loop is in its backoff wait the flag is set and the loop is alone:
\* no mintTo call is in flight
C36_WaitHoldsFlag ==
  \A i \in DOMAIN loops :
    loops[i].pc = "backoff" =>
      /\ isProcessing
      /\ \A j \in DOMAIN loops : j # i => loops[j].pc \notin {"mintTo", "txWait"}

\* what C36_BackoffBlocksQueue asks of a step taken while the wait of loop i
\* goes on: no loop starts or moves, the flag stays set, and the queue is as
\* before or longer by one item at its tail
C36_Step ==
  \A i \in DOMAIN loops :
    (/\ loops[i].pc = "backoff"
     /\ i \in DOMAIN loops'
     /\ loops'[i].pc = "backoff") =>
      /\ loops' = loops
      /\ isProcessing'
      /\ \/ mintQueue' = mintQueue
         \/ /\ Len(mintQueue') = Len(mintQueue) + 1
            /\ SubSeq(mintQueue', 1, Len(mintQueue)) = mintQueue

\* C36: during the backoff wait that follows a failed mintTo, isProcessing
\* stays true and no queued item is submitted: an item that arrives during the
\* wait is only appended to the queue, and the next mintTo call is made by the
\* step that ends the wait.
C36_BackoffBlocksQueue == []C36_WaitHoldsFlag /\ [][C36_Step]_vars

\* the loop is in its backoff wait; the failed item is at the head of the
\* queue and the item of an unmatched payment, which arrived during the wait,
\* is behind it
C36_Witness ==
  /\ isProcessing
  /\ Len(loops) = 1
  /\ loops[1].pc = "backoff"
  /\ Len(mintQueue) = 2
  /\ mintQueue[1] = loops[1].mintRequest
  /\ mintQueue[2].paymentId.auto
  /\ loops[1].mintRequest.paymentId \notin minted

\* ---------------------------------------------------------------------
\* loop i calls mintTo for an item it has taken in this step
Takes(i) ==
  /\ i \in DOMAIN loops'
  /\ loops'[i].pc = "mintTo"
  /\ (i \in DOMAIN loops => loops[i].pc # "mintTo")

\* what C37_QueueIsFifo asks of one step: the queue loses items at its head
\* and gains them at its tail only; the item a loop takes is the head of the
\* queue (or, the queue being empty, the item that arrives in this step); the
\* item of a loop that goes to its backoff wait is put behind all others
C37_Step ==
  /\ \/ mintQueue' = mintQueue
     \/ mintQueue # << >> /\ mintQueue' = Tail(mintQueue)
     \/ /\ Len(mintQueue') = Len(mintQueue) + 1
        /\ SubSeq(mintQueue', 1, Len(mintQueue)) = mintQueue
  /\ \A i \in DOMAIN loops' :
       Takes(i) =>
         IF mintQueue # << >>
           THEN loops'[i].mintRequest = Head(mintQueue) /\ mintQueue' = Tail(mintQueue)
           ELSE /\ loops'[i].mintRequest \notin QueueItems \cup LoopItems
                /\ mintQueue' = << >>
  /\ \A i \in DOMAIN loops :
       (loops[i].pc # "backoff" /\ i \in DOMAIN loops' /\ loops'[i].pc = "backoff") =>
         /\ mintQueue'[Len(mintQueue')] = loops[i].mintRequest
         /\ SubSeq(mintQueue', 1, Len(mintQueue') - 1) = mintQueue

\* C37: the queue is first in, first out.  An item that fails goes to the
\* tail, so the items that were in the queue when the failure was handled are
\* attempted before the failed item is retried, and without failures the items
\* are submitted in the order in which handleUSDCTransfer enqueued them.
C37_QueueIsFifo == [][C37_Step]_vars

\* the place of hash h in the processed set, 0 when it is not in it
PlaceOf(h) ==
  IF h \in SeqToSet(processedTxHashes)
    THEN CHOOSE k \in DOMAIN processedTxHashes : processedTxHashes[k] = h
    ELSE 0

\* mintTo is being called for an item while an item that was paid before it,
\* and whose mint was rejected, waits behind it for its retry
C37_Witness ==
  /\ Len(loops) = 1
  /\ loops[1].pc = "mintTo"
  /\ Len(mintQueue) = 1
  /\ mintQueue[1].paymentId \notin minted
  /\ PlaceOf(mintQueue[1].txHash) > 0
  /\ PlaceOf(mintQueue[1].txHash) < PlaceOf(loops[1].mintRequest.txHash)

\* ---------------------------------------------------------------------
\* the items that wait in the queue followed by those in flight (the loop is
\* between shift and the end of its iteration; in its backoff wait the item
\* it failed on is back in the queue)
InFlight == SelectSeq(loops, LAMBDA l : l.pc \in {"mintTo", "txWait", "report"})
LiveItems == mintQueue \o [j \in DOMAIN InFlight |-> InFlight[j].mintRequest]

\* an item whose payment id is a ledger key agrees with the request
C38_ItemsAgreeWithLedger ==
  \A j \in DOMAIN LiveItems :
    HasPending(pendingMints, LiveItems[j].paymentId) =>
      /\ Request(pendingMints, LiveItems[j].paymentId).userAddress = LiveItems[j].userAddress
      /\ Request(pendingMints, LiveItems[j].paymentId).txHash = LiveItems[j].txHash
      /\ Request(pendingMints, LiveItems[j].paymentId).status # "waiting_for_payment"

\* no two items carry the same payment id
C38_OneItemPerPaymentId ==
  \A j, k \in DOMAIN LiveItems :
    j # k => LiveItems[j].paymentId # LiveItems[k].paymentId

\* no two items carry the same transaction hash
C38_OneItemPerHash ==
  \A j, k \in DOMAIN LiveItems :
    j # k => LiveItems[j].txHash # LiveItems[k].txHash

\* C38 as claimed: in every reachable state each item, waiting or in flight,
\* whose payment id is a ledger key agrees with its request (address, payment
\* hash, status other than waiting_for_payment), and each payment id and each
\* transaction hash is carried by at most one item.
C38_Claimed_QueueMatchesLedger ==
  /\ C38_ItemsAgreeWithLedger
  /\ C38_OneItemPerPaymentId
  /\ C38_OneItemPerHash

\* what C38_QueueMatchesLedger asks of one step: an item that a step adds
\* carries a hash that was not in the processed set before the step
C38_Step ==
  Len(LiveItems') > Len(LiveItems) =>
    /\ Acts
    /\ \A j \in DOMAIN LiveItems' :
         LiveItems'[j].txHash = ActedHash =>
           \/ LiveItems'[j] = NewItem
           \/ \E k \in DOMAIN LiveItems : LiveItems[k] = LiveItems'[j]
    /\ ActedHash \notin SeqToSet(processedTxHashes)

\* C38 (amended): in every reachable state each item, waiting or in flight,
\* whose payment id is a ledger key agrees with its request, and each payment
\* id is carried by at most one item.  A transaction hash is carried by at
\* most one item for each time the hash enters the processed set: an item is
\* added only by a step that finds its hash outside the set and puts it in,
\* so two items share a hash only after the sweep trimmed the hash away.
C38_QueueMatchesLedger ==
  /\ [](C38_ItemsAgreeWithLedger /\ C38_OneItemPerPaymentId)
  /\ [][C38_Step]_vars

\* two items carry the same transaction hash; one of them belongs to a
\* request of the ledger that holds this hash as its payment
C38_Witness ==
  \E j, k \in DOMAIN LiveItems :
    /\ j # k
    /\ LiveItems[j].txHash = LiveItems[k].txHash
    /\ HasPending(pendingMints, LiveItems[j].paymentId)
    /\ Request(pendingMints, LiveItems[j].paymentId).txHash = LiveItems[j].txHash

====
